---- MODULE Spec2Model ----
(***************************************************************************)
(* ADDL Issue Tracker (src/issue_tracker.py): a Streamlit script over one  *)
(* Google Sheets worksheet.  The worksheet is a grid of text cells whose   *)
(* first row is the header; load_issues reads it into a DataFrame,         *)
(* save_issues clears it and writes the whole table back.                  *)
(*                                                                         *)
(* Text is modelled by TLA+ strings (Len, SubSeq and \o act on them), a    *)
(* DataFrame cell by a tagged value: [k |-> "int", v |-> 7] for a number   *)
(* and [k |-> "str", v |-> "abc"] for text.                                *)
(***************************************************************************)
EXTENDS Integers, Sequences, FiniteSets, TLC

VARIABLES
    found,      \* the spreadsheet SHEET_NAME exists (client.open succeeds)
    sheet,      \* the worksheet grid: a sequence of rows of text cells
    pc,         \* per session: where its current script run stands
    df,         \* per session: the script's DataFrame df of the current run
    form,       \* per session: the Add form's widget values of the current run
    session,    \* per session: st.session_state
    screen,     \* per session: what the last script run rendered
    ver,        \* number of write calls the worksheet has served
    loadVer,    \* per session: ver at its last get_all_records
    lastUpdate  \* the session whose sheet.update was served last

vars == <<found, sheet, pc, df, form, session, screen, ver, loadVer, lastUpdate>>

-----------------------------------------------------------------------------
(* Bounds of the model *)

MaxAdds == 2        \* successful adds of one session before it stops adding
MaxRaceAdds == 1    \* the same cap in the interleaved specifications
MaxRaceWrites == 3  \* write calls served after which no further click starts

-----------------------------------------------------------------------------
(* Text helpers (Python str) *)

Char(s, i) == SubSeq(s, i, i)

UPPER == "ABCDEFGHIJKLMNOPQRSTUVWXYZ"
LOWER == "abcdefghijklmnopqrstuvwxyz"
DIGITS == "0123456789"

IsIn(c, alphabet) == \E i \in 1..Len(alphabet) : Char(alphabet, i) = c

IndexIn(c, alphabet) == CHOOSE i \in 1..Len(alphabet) : Char(alphabet, i) = c

\* re.IGNORECASE / case=False on one character
LowerOf ==
    [c \in {Char(UPPER, i) : i \in 1..Len(UPPER)} |-> Char(LOWER, IndexIn(c, UPPER))]

LowerChar(c) == IF c \in DOMAIN LowerOf THEN LowerOf[c] ELSE c

IsSpace(c) == c = " "

\* str.strip(): the text without its leading and trailing whitespace
Strip(s) ==
    LET idx == {i \in 1..Len(s) : ~IsSpace(Char(s, i))}
    IN  IF idx = {} THEN ""
        ELSE LET lo == CHOOSE i \in idx : \A j \in idx : i <= j
                 hi == CHOOSE i \in idx : \A j \in idx : i >= j
             IN  SubSeq(s, lo, hi)

\* sep.join(items)
RECURSIVE Join(_, _)
Join(items, sep) ==
    IF Len(items) = 0 THEN ""
    ELSE IF Len(items) = 1 THEN items[1]
    ELSE items[1] \o sep \o Join(Tail(items), sep)

\* s.split(sep) for a non-empty separator: always at least one piece
RECURSIVE Split(_, _)
Split(s, sep) ==
    LET n == Len(sep)
        hits == {i \in 1..(Len(s) - n + 1) : SubSeq(s, i, i + n - 1) = sep}
    IN  IF hits = {} THEN <<s>>
        ELSE LET i == CHOOSE h \in hits : \A g \in hits : h <= g
             IN  <<SubSeq(s, 1, i - 1)>> \o Split(SubSeq(s, i + n, Len(s)), sep)

\* int(s) succeeds: optional surrounding whitespace around decimal digits
IsIntLiteral(s) ==
    LET t == Strip(s)
    IN  Len(t) > 0 /\ \A i \in 1..Len(t) : IsIn(Char(t, i), DIGITS)

RECURSIVE DigitsValue(_)
DigitsValue(t) ==
    IF Len(t) = 0 THEN 0
    ELSE 10 * DigitsValue(SubSeq(t, 1, Len(t) - 1))
         + (IndexIn(Char(t, Len(t)), DIGITS) - 1)

ParseInt(s) == DigitsValue(Strip(s))

\* str(n) for n >= 0
RECURSIVE IntToStr(_)
IntToStr(n) ==
    IF n < 10 THEN Char(DIGITS, n + 1)
    ELSE IntToStr(n \div 10) \o Char(DIGITS, (n % 10) + 1)

-----------------------------------------------------------------------------
(* DataFrame cells *)

Str(s) == [k |-> "str", v |-> s]
Num(n) == [k |-> "int", v |-> n]

\* gspread numericise, as get_all_records applies it to every data cell:
\* text that int() accepts becomes that integer, anything else stays text.
\* (Text that only float() accepts is outside the cell alphabet used here.)
numericise(s) == IF IsIntLiteral(s) THEN Num(ParseInt(s)) ELSE Str(s)

\* astype(str) on one cell
astype_str(c) == IF c.k = "int" THEN IntToStr(c.v) ELSE c.v

-----------------------------------------------------------------------------
(* Schema and vocabularies *)

EXPECTED_COLUMNS ==
    << "Issue ID", "Date Reported", "Reported By", "Category", "Subcategory",
       "Lab Section", "Species", "Description", "Action Taken",
       "Resolution Date", "Notes" >>

\* The placeholder option of the Category selectbox (its dashes are em
\* dashes in the source).
SELECT_PLACEHOLDER == "-- Select --"

category_options ==
    << SELECT_PLACEHOLDER, "Mailing Room", "Client Communication",
       "Lab Section", "Other" >>

\* The options the model's forms draw from (a part of each source list).
lab_sections == << "Avian", "Bacteriology", "Virology" >>
species_list == << "Cervid", "Avian", "Bovine" >>
mailing_room_issues == << "Missing Sample", "Broken Sample", "Other" >>
client_comm_issues == << "Turnaround Time", "Fees", "Other" >>

Range(f) == {f[i] : i \in DOMAIN f}

-----------------------------------------------------------------------------
(* The worksheet (gspread Worksheet) as a grid of text *)

\* A cell of a grid row; a cell beyond the row's end reads as empty.
CellAt(row, j) == IF j <= Len(row) THEN row[j] ELSE ""

\* A row without its trailing empty cells.
RECURSIVE TrimRow(_)
TrimRow(row) ==
    IF Len(row) = 0 THEN row
    ELSE IF row[Len(row)] = "" THEN TrimRow(SubSeq(row, 1, Len(row) - 1))
    ELSE row

\* sheet.row_values(1)
row_values(grid, r) == IF r <= Len(grid) THEN TrimRow(grid[r]) ELSE <<>>

\* sheet.insert_row(values, 1): the rows at and below the index move down.
insert_row(grid, values, r) ==
    SubSeq(grid, 1, r - 1) \o <<values>> \o SubSeq(grid, r, Len(grid))

\* sheet.clear()
clear(grid) == <<>>

\* sheet.update(values): the block is written from cell A1; cells outside
\* the block keep what they hold.
update(grid, values) ==
    LET n == IF Len(values) > Len(grid) THEN Len(values) ELSE Len(grid)
    IN  [i \in 1..n |->
            IF i > Len(values) THEN grid[i]
            ELSE IF i > Len(grid) THEN values[i]
            ELSE values[i] \o SubSeq(grid[i], Len(values[i]) + 1, Len(grid[i]))]

\* sheet.get_all_records(): row 1 gives the keys, every later row one
\* record whose values are numericised.
get_all_records(grid) ==
    IF Len(grid) <= 1 THEN [keys |-> <<>>, recs |-> <<>>]
    ELSE [keys |-> grid[1],
          recs |-> [i \in 1..(Len(grid) - 1) |->
                       [j \in 1..Len(grid[1]) |->
                           numericise(CellAt(grid[i + 1], j))]]]

-----------------------------------------------------------------------------
(* DataFrames: [columns |-> names, rows |-> rows of cells in column order] *)

DataFrame(columns, rows) == [columns |-> columns, rows |-> rows]

HasColumn(frame, col) == \E j \in 1..Len(frame.columns) : frame.columns[j] = col

ColumnIndex(frame, col) ==
    CHOOSE j \in 1..Len(frame.columns) : frame.columns[j] = col

\* frame[col] of one row
Get(frame, row, col) == row[ColumnIndex(frame, col)]

\* frame[col] = "" for a column the frame lacks
AddEmptyColumn(frame, col) ==
    DataFrame(Append(frame.columns, col),
              [i \in 1..Len(frame.rows) |-> Append(frame.rows[i], Str(""))])

\* for col in EXPECTED_COLUMNS: if col not in df.columns: df[col] = ""
RECURSIVE Backfill(_, _)
Backfill(frame, cols) ==
    IF Len(cols) = 0 THEN frame
    ELSE Backfill(IF HasColumn(frame, Head(cols)) THEN frame
                  ELSE AddEmptyColumn(frame, Head(cols)),
                  Tail(cols))

\* frame[cols]
SelectColumns(frame, cols) ==
    DataFrame(cols,
              [i \in 1..Len(frame.rows) |->
                  [j \in 1..Len(cols) |-> Get(frame, frame.rows[i], cols[j])]])

\* df.empty
IsEmpty(frame) == Len(frame.rows) = 0 \/ Len(frame.columns) = 0

\* The frame without the final column selection: columns stay in the
\* stored order, backfilled ones last, other columns kept.
FrameOfRecords_no_select(data) ==
    IF Len(data.recs) = 0 THEN DataFrame(EXPECTED_COLUMNS, <<>>)
    ELSE Backfill(DataFrame(data.keys, data.recs), EXPECTED_COLUMNS)

\* The frame load_issues builds from the records of the worksheet.
FrameOfRecords(data) ==
    IF Len(data.recs) = 0 THEN DataFrame(EXPECTED_COLUMNS, <<>>)
    ELSE SelectColumns(
             Backfill(DataFrame(data.keys, data.recs), EXPECTED_COLUMNS),
             EXPECTED_COLUMNS)

\* _ensure_header as one call: an empty first row gets the header.
ensure_header(grid) ==
    IF Len(row_values(grid, 1)) = 0
    THEN insert_row(grid, EXPECTED_COLUMNS, 1)
    ELSE grid

\* load_issues as one uninterrupted call: the worksheet it leaves and the
\* frame it returns.
load_issues(grid) ==
    LET g == ensure_header(grid)
    IN  [sheet |-> g, df |-> FrameOfRecords(get_all_records(g))]

\* [EXPECTED_COLUMNS] + df[EXPECTED_COLUMNS].astype(str).values.tolist()
SaveValues(frame) ==
    LET sel == SelectColumns(frame, EXPECTED_COLUMNS)
    IN  <<EXPECTED_COLUMNS>> \o
        [i \in 1..Len(sel.rows) |->
            [j \in 1..Len(EXPECTED_COLUMNS) |-> astype_str(sel.rows[i][j])]]

\* save_issues as one uninterrupted call.
save_issues(grid, frame) == update(clear(grid), SaveValues(frame))

-----------------------------------------------------------------------------
(* The Add Issue form and handler (pure parts) *)

\* st.date_input: a date, or None (value=None)
NoDate == [y |-> 0, m |-> 0, d |-> 0]
Date(y, m, d) == [y |-> y, m |-> m, d |-> d]

Pad2(n) == IF n < 10 THEN "0" \o IntToStr(n) ELSE IntToStr(n)

\* date.strftime("%Y-%m-%d") for a four-digit year
strftime_date(dt) == IntToStr(dt.y) \o "-" \o Pad2(dt.m) \o "-" \o Pad2(dt.d)

Form(reporter, cat, sub, lab, spc, desc, action, resolved, nts) ==
    [reported_by |-> reporter, category |-> cat, subcategory |-> sub,
     lab_section |-> lab, species |-> spc, description |-> desc,
     action_taken |-> action, resolution_date |-> resolved, notes |-> nts]

\* The chain with the description tested without strip().
ValidationError_no_strip(f) ==
    IF f.category = SELECT_PLACEHOLDER
    THEN "Please select a Category before adding the issue."
    ELSE IF f.description = ""
    THEN "Please provide an Issue Description."
    ELSE IF f.category \in {"Mailing Room", "Client Communication"}
            /\ Len(f.subcategory) = 0
    THEN "Please select at least one subcategory for " \o f.category \o "."
    ELSE ""

\* The validation chain of the Add Issue button; "" when the form passes.
ValidationError(f) ==
    IF f.category = SELECT_PLACEHOLDER
    THEN "Please select a Category before adding the issue."
    ELSE IF Strip(f.description) = ""
    THEN "Please provide an Issue Description."
    ELSE IF f.category \in {"Mailing Room", "Client Communication"}
            /\ Len(f.subcategory) = 0
    THEN "Please select at least one subcategory for " \o f.category \o "."
    ELSE ""

IssueIds(frame) ==
    [i \in 1..Len(frame.rows) |-> Get(frame, frame.rows[i], "Issue ID")]

\* df["Issue ID"].max() and int() of it succeed: every id is an integer
\* (text among the ids makes max() or int() raise).
CanComputeId(frame) ==
    IsEmpty(frame) \/ \A i \in 1..Len(frame.rows) : IssueIds(frame)[i].k = "int"

MaxOf(S) == CHOOSE m \in S : \A x \in S : x <= m

\* A next id taken from the number of rows instead of the largest id.
new_issue_id_by_count(frame) == Len(frame.rows) + 1

\* new_issue_id = int(df["Issue ID"].max()) + 1 if not df.empty else 1
new_issue_id(frame) ==
    IF ~IsEmpty(frame)
    THEN MaxOf({IssueIds(frame)[i].v : i \in 1..Len(frame.rows)}) + 1
    ELSE 1

\* ", ".join(xs) if xs else ""
JoinOrEmpty(xs) == IF Len(xs) > 0 THEN Join(xs, ", ") ELSE ""

\* The new_issue dict, in the order of its keys.
new_issue(f, id, now) ==
    << Num(id), Str(now), Str(f.reported_by), Str(f.category),
       Str(JoinOrEmpty(f.subcategory)), Str(JoinOrEmpty(f.lab_section)),
       Str(JoinOrEmpty(f.species)), Str(f.description), Str(f.action_taken),
       Str(IF f.resolution_date # NoDate
           THEN strftime_date(f.resolution_date) ELSE ""),
       Str(f.notes) >>

\* pd.concat([df, pd.DataFrame([new_issue])], ignore_index=True); both
\* frames carry the expected columns in the expected order.
concat(frame, row) == DataFrame(frame.columns, Append(frame.rows, row))

-----------------------------------------------------------------------------
(* View Issues: the search filter *)

\* One pattern character against one text character under re.IGNORECASE:
\* "." matches any character, any other character of the keyword alphabet
\* matches itself in either case.
MatchChar(p, c) == p = "." \/ LowerChar(p) = LowerChar(c)

\* Series.str.contains(pat, case=False): re.search of pat in the text
\* (str.contains treats pat as a regular expression).
str_contains(text, pat) ==
    \E i \in 1..(Len(text) - Len(pat) + 1) :
        \A j \in 1..Len(pat) : MatchChar(Char(pat, j), Char(text, i + j - 1))

\* row.astype(str).str.contains(search, case=False).any()
RowMatches(row, pat) ==
    \E j \in 1..Len(row) : str_contains(astype_str(row[j]), pat)

\* The rows that match the pattern, in their order.
RECURSIVE MatchingRows(_, _)
MatchingRows(rows, pat) ==
    IF Len(rows) = 0 THEN <<>>
    ELSE (IF RowMatches(Head(rows), pat) THEN <<Head(rows)>> ELSE <<>>)
         \o MatchingRows(Tail(rows), pat)

\* filtered = df[df.apply(...)] if search else df
search_filter(frame, keyword) ==
    IF keyword # ""
    THEN DataFrame(frame.columns, MatchingRows(frame.rows, keyword))
    ELSE frame

-----------------------------------------------------------------------------
(* Analytics Dashboard *)

Column(frame, col) ==
    [i \in 1..Len(frame.rows) |-> astype_str(Get(frame, frame.rows[i], col))]

CountIn(xs, x) == Cardinality({i \in 1..Len(xs) : xs[i] = x})

\* Series.value_counts(): label -> number of occurrences
value_counts(xs) == [x \in Range(xs) |-> CountIn(xs, x)]

RECURSIVE Flatten(_)
Flatten(lists) ==
    IF Len(lists) = 0 THEN <<>> ELSE Head(lists) \o Flatten(Tail(lists))

\* .replace("", pd.NA).dropna(): the cells that hold text
RECURSIVE DropEmpty(_)
DropEmpty(xs) ==
    IF Len(xs) = 0 THEN <<>>
    ELSE (IF Head(xs) # "" THEN <<Head(xs)>> ELSE <<>>) \o DropEmpty(Tail(xs))

\* .astype(str).replace("", pd.NA).dropna().str.split(", ").explode()
Exploded(frame, col) ==
    LET cells == DropEmpty(Column(frame, col))
    IN  Flatten([i \in 1..Len(cells) |-> Split(cells[i], ", ")])

\* The tally of whole cells, without str.split and explode.
multivalue_counts_unsplit(frame, col) ==
    IF \E i \in 1..Len(frame.rows) : Len(Column(frame, col)[i]) > 0
    THEN value_counts(DropEmpty(Column(frame, col)))
    ELSE << >>

\* The lab_counts / species_counts chart data; nothing is computed when
\* no cell of the column has text.
multivalue_counts(frame, col) ==
    IF \E i \in 1..Len(frame.rows) : Len(Column(frame, col)[i]) > 0
    THEN value_counts(Exploded(frame, col))
    ELSE << >>

\* The four metrics; resolution_rate is the exact quotient num/den.
NoMetrics == [total |-> 0, resolved |-> 0, open |-> 0, rate |-> <<0, 0>>]

\* The metrics with resolved taken from the Action Taken column.
resolution_metrics_by_action(frame) ==
    IF ~IsEmpty(frame)
    THEN LET total == Len(frame.rows)
             resolved_count ==
                 Cardinality({i \in 1..total :
                     Len(Column(frame, "Action Taken")[i]) > 0})
         IN  [total |-> total,
              resolved |-> resolved_count,
              open |-> total - resolved_count,
              rate |-> IF total > 0 THEN <<resolved_count * 100, total>>
                       ELSE <<0, 0>>]
    ELSE NoMetrics

resolution_metrics(frame) ==
    IF ~IsEmpty(frame)
    THEN LET total == Len(frame.rows)
             resolved_count ==
                 Cardinality({i \in 1..total :
                     Len(Column(frame, "Resolution Date")[i]) > 0})
         IN  [total |-> total,
              resolved |-> resolved_count,
              open |-> total - resolved_count,
              rate |-> IF total > 0 THEN <<resolved_count * 100, total>>
                       ELSE <<0, 0>>]
    ELSE NoMetrics

-----------------------------------------------------------------------------
(* Inputs of the model *)

Sessions == {"s1", "s2"}

\* datetime.now().strftime("%Y-%m-%d %H:%M:%S") at the time of an add
Clock == {"2024-01-05 10:00:00"}

FMail == Form("Ann", "Mailing Room", <<"Broken Sample">>, <<>>, <<>>,
              "box crushed", "", NoDate, "")
FLab == Form("", "Lab Section", <<>>, <<"Avian", "Virology">>, <<"Avian">>,
             "007", "rerun", Date(2024, 1, 6), "")
FComm == Form("Bo", "Client Communication", <<"Fees", "Other">>, <<"Avian">>,
              <<"Cervid", "Bovine">>, " late ", "called", NoDate, "call 12")
FNoCategory == Form("Ann", SELECT_PLACEHOLDER, <<>>, <<>>, <<>>,
                    "x", "", NoDate, "")
FNoDescription == Form("Ann", "Other", <<>>, <<>>, <<>>, "  ", "", NoDate, "")
FNoSubMail == Form("", "Mailing Room", <<>>, <<"Avian">>, <<>>,
                   "lost", "", NoDate, "")
FNoSubComm == Form("", "Client Communication", <<>>, <<>>, <<>>,
                   "fees", "", NoDate, "")

ValidForms == {FMail, FLab, FComm}
Forms == ValidForms \cup {FNoCategory, FNoDescription, FNoSubMail, FNoSubComm}

\* What a user may type into the search box.
Keywords == {"", "avian", "BOX", "7", "."}

\* Worksheets the program may find when it starts: a blank sheet, sheets
\* it wrote itself (one whose ids have a gap after a manual edit), and a
\* sheet with another column layout (columns missing, one extra, another
\* order).  Every stored id is a positive integer.
StoredFrame(ids, f) ==
    DataFrame(EXPECTED_COLUMNS,
              [i \in 1..Len(ids) |->
                  new_issue(f, ids[i], "2024-01-04 09:00:00")])

LegacySheet ==
    << << "Priority", "Description", "Issue ID", "Category" >>,
       << "high", "leak", "1", "Other" >>,
       << "low", "42", "2", "Other" >> >>

InitialSheets ==
    { <<>>,
      SaveValues(StoredFrame(<<1>>, FComm)),
      SaveValues(StoredFrame(<<1, 2, 5>>, FMail)),
      LegacySheet }

-----------------------------------------------------------------------------
(* Session state and the rendered page *)

NoFrame == DataFrame(<<>>, <<>>)

NewSession == [show_success |-> FALSE, last_issue_id |-> 0, form_key |-> 0]

Rendered(page, msg, table, total, metrics, labs, spcs) ==
    [page |-> page, msg |-> msg, table |-> table, total |-> total,
     metrics |-> metrics, lab_counts |-> labs, species_counts |-> spcs]

BlankScreen == Rendered("", "", NoFrame, 0, NoMetrics, <<>>, <<>>)

Message(page, msg) == Rendered(page, msg, NoFrame, 0, NoMetrics, <<>>, <<>>)

\* Top of the Add page: a pending success message is shown once, then the
\* flag is reset and form_key incremented to clear the widgets.
AfterSuccessBanner(sess) ==
    IF sess.show_success
    THEN [sess EXCEPT !.show_success = FALSE, !.form_key = @ + 1]
    ELSE sess

SuccessBanner(sess) ==
    IF sess.show_success
    THEN "Issue #" \o IntToStr(sess.last_issue_id) \o " added successfully!"
    ELSE ""

\* The data rows of the worksheet, as text.
DataRows(grid) == SubSeq(grid, 2, Len(grid))

Init ==
    /\ found \in BOOLEAN
    /\ sheet \in (IF found THEN InitialSheets ELSE {<<>>})
    /\ pc = [s \in Sessions |-> "idle"]
    /\ df = [s \in Sessions |-> NoFrame]
    /\ form = [s \in Sessions |-> FNoCategory]
    /\ session = [s \in Sessions |-> NewSession]
    /\ screen = [s \in Sessions |-> BlankScreen]
    /\ ver = 0
    /\ loadVer = [s \in Sessions |-> 0]
    /\ lastUpdate = "none"

-----------------------------------------------------------------------------
(* Page bodies as functions of what they read: each gives the worksheet,   *)
(* session state, screen and next position the run leaves.                 *)

Outcome(grid, sess, scr, next) ==
    [sheet |-> grid, session |-> sess, screen |-> scr, pc |-> next]

\* The handler appending to the df of the page load, without a reload.
FrameToAppendTo_page_load(pageLoad, reloaded) == pageLoad

\* The table the handler appends to: line 256 rebinds df to a fresh load.
FrameToAppendTo(pageLoad, reloaded) == reloaded

\* The Add page without a click: only the top of the page runs.
AddPage(grid, sess) ==
    Outcome(grid, AfterSuccessBanner(sess),
            Message("add", SuccessBanner(sess)), "idle")

\* The Add page with the Add Issue button clicked: validation, then reload,
\* id assignment, concat and save, then st.rerun().  pageLoad is the df of
\* line 147.
AddIssue(grid, sess, pageLoad, f, now) ==
    LET top == AfterSuccessBanner(sess)
    IN  IF ValidationError(f) # ""
        THEN Outcome(grid, top, Message("add", ValidationError(f)), "idle")
        ELSE LET r == load_issues(grid)
                 base == FrameToAppendTo(pageLoad, r.df)
             IN  IF ~CanComputeId(base)
                 THEN Outcome(r.sheet, top, Message("add", "TypeError"), "idle")
                 ELSE LET id == new_issue_id(base)
                          new == concat(base, new_issue(f, id, now))
                      IN  Outcome(save_issues(r.sheet, new),
                                  [top EXCEPT !.last_issue_id = id,
                                              !.show_success = TRUE],
                                  BlankScreen, "rerun")

\* The View page: line 297 loads again, the Refresh button once more, then
\* the search filter.
ViewIssues(grid, sess, keyword, refresh) ==
    LET r1 == load_issues(grid)
        r == IF refresh THEN load_issues(r1.sheet) ELSE r1
    IN  Outcome(r.sheet, sess,
                Rendered("view", keyword, search_filter(r.df, keyword),
                         Len(r.df.rows), NoMetrics, <<>>, <<>>),
                "idle")

\* The Analytics page: line 344 loads again, then the metrics and charts.
Analytics(grid, sess) ==
    LET r == load_issues(grid)
    IN  Outcome(r.sheet, sess,
                IF ~IsEmpty(r.df)
                THEN Rendered("analytics", "", r.df, Len(r.df.rows),
                              resolution_metrics(r.df),
                              multivalue_counts(r.df, "Lab Section"),
                              multivalue_counts(r.df, "Species"))
                ELSE Rendered("analytics", "No data yet.", r.df, 0,
                              NoMetrics, <<>>, <<>>),
                "idle")

\* The run of session s ends with outcome o.
Finish(s, o) ==
    /\ sheet' = o.sheet
    /\ session' = [session EXCEPT ![s] = o.session]
    /\ screen' = [screen EXCEPT ![s] = o.screen]
    /\ pc' = [pc EXCEPT ![s] = o.pc]
    /\ df' = [df EXCEPT ![s] = NoFrame]

-----------------------------------------------------------------------------
(* Spec: one user.  Each action is one whole script run: the page-load     *)
(* load_issues of line 147, then the body of the selected page.            *)

User == "s1"

\* client.open raises SpreadsheetNotFound: every run ends at line 147.
RunFails ==
    /\ ~found
    /\ pc[User] = "idle"
    /\ screen' = [screen EXCEPT ![User] = Message("", "SpreadsheetNotFound")]
    /\ UNCHANGED <<found, sheet, pc, df, form, session, ver, loadVer, lastUpdate>>

\* Navigation to the Add page, or the run queued by st.rerun().
RenderAdd ==
    /\ found
    /\ pc[User] \in {"idle", "rerun"}
    /\ \E top \in {load_issues(sheet)} :
           Finish(User, AddPage(top.sheet, session[User]))
    /\ UNCHANGED <<found, form, ver, loadVer, lastUpdate>>

\* A click of Add Issue with some form at some time.
ClickAdd ==
    /\ found
    /\ pc[User] = "idle"
    /\ session[User].form_key < MaxAdds
    /\ \E top \in {load_issues(sheet)} :
       \E f \in Forms, now \in Clock :
           /\ form' = [form EXCEPT ![User] = f]
           /\ Finish(User, AddIssue(top.sheet, session[User], top.df, f, now))
    /\ UNCHANGED <<found, ver, loadVer, lastUpdate>>

\* The View page with some keyword in the search box.
RunView ==
    /\ found
    /\ pc[User] = "idle"
    /\ \E top \in {load_issues(sheet)} :
       \E keyword \in Keywords, refresh \in BOOLEAN :
           Finish(User, ViewIssues(top.sheet, session[User], keyword, refresh))
    /\ UNCHANGED <<found, form, ver, loadVer, lastUpdate>>

\* The Analytics page.
RunAnalytics ==
    /\ found
    /\ pc[User] = "idle"
    /\ \E top \in {load_issues(sheet)} :
           Finish(User, Analytics(top.sheet, session[User]))
    /\ UNCHANGED <<found, form, ver, loadVer, lastUpdate>>

Next ==
    \/ RunFails
    \/ RenderAdd
    \/ ClickAdd
    \/ RunView
    \/ RunAnalytics

Spec == Init /\ [][Next]_vars

-----------------------------------------------------------------------------
(* SpecSerial: two users adding issues.  A click run is two steps, the     *)
(* page load of line 147 and then the handler (validation, reload, id,     *)
(* concat, save) as one uninterrupted step: appends never overlap, but a   *)
(* session's page-load copy may be stale when its handler runs.            *)

SerialForms == {FLab, FNoSubMail}

InitSerial ==
    /\ found = TRUE
    /\ sheet \in InitialSheets
    /\ pc = [s \in Sessions |-> "idle"]
    /\ df = [s \in Sessions |-> NoFrame]
    /\ form = [s \in Sessions |-> FNoCategory]
    /\ session = [s \in Sessions |-> NewSession]
    /\ screen = [s \in Sessions |-> BlankScreen]
    /\ ver = 0
    /\ loadVer = [s \in Sessions |-> 0]
    /\ lastUpdate = "none"

\* The click run starts: line 147 loads the table into df.
OpenAdd(s) ==
    /\ pc[s] = "idle"
    /\ session[s].form_key < MaxAdds
    /\ \E top \in {load_issues(sheet)} :
           /\ sheet' = top.sheet
           /\ df' = [df EXCEPT ![s] = top.df]
    /\ pc' = [pc EXCEPT ![s] = "add_click"]
    /\ UNCHANGED <<found, form, session, screen, ver, loadVer, lastUpdate>>

\* The Add Issue handler of the run.
HandleClick(s) ==
    /\ pc[s] = "add_click"
    /\ \E f \in SerialForms, now \in Clock :
           /\ form' = [form EXCEPT ![s] = f]
           /\ Finish(s, AddIssue(sheet, session[s], df[s], f, now))
    /\ UNCHANGED <<found, ver, loadVer, lastUpdate>>

\* The run queued by st.rerun(): page load, then the Add page.
Rerun(s) ==
    /\ pc[s] = "rerun"
    /\ \E top \in {load_issues(sheet)} :
           Finish(s, AddPage(top.sheet, session[s]))
    /\ UNCHANGED <<found, form, ver, loadVer, lastUpdate>>

NextSerial ==
    \/ \E s \in Sessions : OpenAdd(s)
    \/ \E s \in Sessions : HandleClick(s)
    \/ \E s \in Sessions : Rerun(s)

SpecSerial == InitSerial /\ [][NextSerial]_vars

-----------------------------------------------------------------------------
(* SpecRace: two users adding, one step per worksheet call.  A load is            *)
(* row_values(1), insert_row when that row was empty, get_all_records; a   *)
(* save is clear, then update.  pc[s] is "<run>.<load>.<call>" while a     *)
(* load is under way: runs add (a click), rerun and view; loads top (line  *)
(* 147), re (line 256) and page (line 297).  ver counts the write calls    *)
(* served, loadVer[s] is ver at the last get_all_records of s, lastUpdate  *)
(* the session whose update was served last.                               *)

RaceForms == {FMail, FLab, FNoSubMail}

LoadPoints == {"add.top", "add.re", "rerun.top", "view.top", "view.page"}

InitRace ==
    /\ found = TRUE
    /\ sheet \in {<<>>, SaveValues(StoredFrame(<<1, 2, 5>>, FMail))}
    /\ pc = [s \in Sessions |-> "idle"]
    /\ df = [s \in Sessions |-> NoFrame]
    /\ form = [s \in Sessions |-> FNoCategory]
    /\ session = [s \in Sessions |-> NewSession]
    /\ screen = [s \in Sessions |-> BlankScreen]
    /\ ver = 0
    /\ loadVer = [s \in Sessions |-> 0]
    /\ lastUpdate = "none"

\* The user clicks Add Issue with some form: the run starts at line 147.
StartClick(s) ==
    /\ pc[s] = "idle"
    /\ session[s].form_key < MaxRaceAdds
    /\ ver < MaxRaceWrites
    /\ \E f \in RaceForms : form' = [form EXCEPT ![s] = f]
    /\ pc' = [pc EXCEPT ![s] = "add.top.rv"]
    /\ UNCHANGED <<found, sheet, df, session, screen, ver, loadVer, lastUpdate>>

\* The user opens the View page, the search box empty.
StartView(s) ==
    /\ pc[s] = "idle"
    /\ pc' = [pc EXCEPT ![s] = "view.top.rv"]
    /\ UNCHANGED <<found, sheet, df, form, session, screen, ver, loadVer, lastUpdate>>

\* The run queued by st.rerun() starts.
StartRerun(s) ==
    /\ pc[s] = "rerun"
    /\ pc' = [pc EXCEPT ![s] = "rerun.top.rv"]
    /\ UNCHANGED <<found, sheet, df, form, session, screen, ver, loadVer, lastUpdate>>

\* _ensure_header, line 41: existing = sheet.row_values(1)
RowValues(s) ==
    /\ \E at \in LoadPoints :
           /\ pc[s] = at \o ".rv"
           /\ pc' = [pc EXCEPT ![s] =
                  IF Len(row_values(sheet, 1)) = 0
                  THEN at \o ".ins" ELSE at \o ".get"]
    /\ UNCHANGED <<found, sheet, df, form, session, screen, ver, loadVer, lastUpdate>>

\* _ensure_header, line 44: sheet.insert_row(EXPECTED_COLUMNS, 1)
InsertRow(s) ==
    /\ \E at \in LoadPoints :
           /\ pc[s] = at \o ".ins"
           /\ pc' = [pc EXCEPT ![s] = at \o ".get"]
    /\ sheet' = insert_row(sheet, EXPECTED_COLUMNS, 1)
    /\ ver' = ver + 1
    /\ UNCHANGED <<found, df, form, session, screen, loadVer, lastUpdate>>

\* load_issues, lines 54-64, at a page load that only hands on to the
\* page: get_all_records and the frame built from it.
GetPageLoad(s) ==
    /\ pc[s] = "view.top.get"
    /\ df' = [df EXCEPT ![s] = FrameOfRecords(get_all_records(sheet))]
    /\ loadVer' = [loadVer EXCEPT ![s] = ver]
    /\ pc' = [pc EXCEPT ![s] = "view.page.rv"]
    /\ UNCHANGED <<found, sheet, form, session, screen, ver, lastUpdate>>

\* The same at the page load of a click run; then the top of the Add page
\* and the validation chain.
GetClickLoad(s) ==
    /\ pc[s] = "add.top.get"
    /\ df' = [df EXCEPT ![s] = FrameOfRecords(get_all_records(sheet))]
    /\ loadVer' = [loadVer EXCEPT ![s] = ver]
    /\ session' = [session EXCEPT ![s] = AfterSuccessBanner(session[s])]
    /\ IF ValidationError(form[s]) # ""
       THEN /\ screen' = [screen EXCEPT ![s] =
                   Message("add", ValidationError(form[s]))]
            /\ pc' = [pc EXCEPT ![s] = "idle"]
       ELSE /\ pc' = [pc EXCEPT ![s] = "add.re.rv"]
            /\ UNCHANGED screen
    /\ UNCHANGED <<found, sheet, form, ver, lastUpdate>>

\* The same at the page load of the rerun; then the Add page is rendered.
GetRerunLoad(s) ==
    /\ pc[s] = "rerun.top.get"
    /\ loadVer' = [loadVer EXCEPT ![s] = ver]
    /\ session' = [session EXCEPT ![s] = AfterSuccessBanner(session[s])]
    /\ screen' = [screen EXCEPT ![s] = Message("add", SuccessBanner(session[s]))]
    /\ pc' = [pc EXCEPT ![s] = "idle"]
    /\ df' = [df EXCEPT ![s] = NoFrame]
    /\ UNCHANGED <<found, sheet, form, ver, lastUpdate>>

\* Lines 256-284: the reload's get_all_records, then the id and the concat.
GetReload(s) ==
    /\ pc[s] = "add.re.get"
    /\ loadVer' = [loadVer EXCEPT ![s] = ver]
    /\ \E base \in {FrameToAppendTo(df[s], FrameOfRecords(get_all_records(sheet)))},
          now \in Clock :
           IF ~CanComputeId(base)
           THEN /\ screen' = [screen EXCEPT ![s] = Message("add", "TypeError")]
                /\ pc' = [pc EXCEPT ![s] = "idle"]
                /\ df' = [df EXCEPT ![s] = NoFrame]
           ELSE /\ df' = [df EXCEPT ![s] =
                       concat(base, new_issue(form[s], new_issue_id(base), now))]
                /\ pc' = [pc EXCEPT ![s] = "add.clear"]
                /\ UNCHANGED screen
    /\ UNCHANGED <<found, sheet, form, session, ver, lastUpdate>>

\* save_issues, line 70: sheet.clear()
Clear(s) ==
    /\ pc[s] = "add.clear"
    /\ sheet' = clear(sheet)
    /\ ver' = ver + 1
    /\ pc' = [pc EXCEPT ![s] = "add.update"]
    /\ UNCHANGED <<found, df, form, session, screen, loadVer, lastUpdate>>

\* save_issues, lines 71-73: sheet.update(...)
Update(s) ==
    /\ pc[s] = "add.update"
    /\ sheet' = update(sheet, SaveValues(df[s]))
    /\ ver' = ver + 1
    /\ lastUpdate' = s
    /\ pc' = [pc EXCEPT ![s] = "add.saved"]
    /\ UNCHANGED <<found, df, form, session, screen, loadVer>>

\* The update call raises (the API is unreachable): the run ends with the
\* worksheet cleared.
UpdateFails(s) ==
    /\ pc[s] = "add.update"
    /\ screen' = [screen EXCEPT ![s] = Message("add", "APIError")]
    /\ pc' = [pc EXCEPT ![s] = "idle"]
    /\ df' = [df EXCEPT ![s] = NoFrame]
    /\ UNCHANGED <<found, sheet, form, session, ver, loadVer, lastUpdate>>

\* Lines 287-290: the session flags, then st.rerun().
Saved(s) ==
    /\ pc[s] = "add.saved"
    /\ session' = [session EXCEPT ![s] =
           [@ EXCEPT !.last_issue_id =
                         df[s].rows[Len(df[s].rows)][1].v,
                     !.show_success = TRUE]]
    /\ pc' = [pc EXCEPT ![s] = "rerun"]
    /\ df' = [df EXCEPT ![s] = NoFrame]
    /\ UNCHANGED <<found, sheet, form, screen, ver, loadVer, lastUpdate>>

\* Line 297 on the View page: get_all_records, then the page is rendered.
GetView(s) ==
    /\ pc[s] = "view.page.get"
    /\ loadVer' = [loadVer EXCEPT ![s] = ver]
    /\ \E frame \in {FrameOfRecords(get_all_records(sheet))} :
           screen' = [screen EXCEPT ![s] =
               Rendered("view", "", search_filter(frame, ""), Len(frame.rows),
                        NoMetrics, <<>>, <<>>)]
    /\ pc' = [pc EXCEPT ![s] = "idle"]
    /\ df' = [df EXCEPT ![s] = NoFrame]
    /\ UNCHANGED <<found, sheet, form, session, ver, lastUpdate>>

LoadStep(s) == RowValues(s) \/ InsertRow(s)

WriterStep(s) ==
    \/ StartClick(s)
    \/ GetClickLoad(s)
    \/ GetReload(s)
    \/ Clear(s)
    \/ Update(s)
    \/ UpdateFails(s)
    \/ Saved(s)
    \/ StartRerun(s)
    \/ GetRerunLoad(s)

ReaderStep(s) ==
    \/ StartView(s)
    \/ GetPageLoad(s)
    \/ GetView(s)

NextRace ==
    \E s \in Sessions : LoadStep(s) \/ WriterStep(s)

SpecRace == InitRace /\ [][NextRace]_vars

\* SpecOneWriter: the same steps with one session that only adds and one
\* that only views.
Writer == "s1"
Reader == "s2"

NextOneWriter ==
    \/ WriterStep(Writer)
    \/ ReaderStep(Reader)
    \/ \E s \in Sessions : LoadStep(s)

SpecOneWriter == InitRace /\ [][NextOneWriter]_vars

-----------------------------------------------------------------------------
(* Vocabulary of the properties *)

\* The stored table as text: per data row the eleven fields in canonical
\* order, a field the sheet has no column for reading as empty.
StoredField(grid, i, col) ==
    IF \E j \in 1..Len(grid[1]) : grid[1][j] = col
    THEN CellAt(grid[i + 1], CHOOSE j \in 1..Len(grid[1]) : grid[1][j] = col)
    ELSE ""

StoredTable(grid) ==
    [i \in 1..(Len(grid) - 1) |->
        [j \in 1..Len(EXPECTED_COLUMNS) |-> StoredField(grid, i, EXPECTED_COLUMNS[j])]]

StoredIds(grid) ==
    [i \in 1..(Len(grid) - 1) |-> ParseInt(StoredField(grid, i, "Issue ID"))]

MaxIdOrZero(ids) == IF Len(ids) = 0 THEN 0 ELSE MaxOf(Range(ids))

IsPrefix(xs, ys) == Len(xs) <= Len(ys) /\ SubSeq(ys, 1, Len(xs)) = xs

\* A form the claim calls invalid.
Invalid(f) ==
    \/ f.category = SELECT_PLACEHOLDER
    \/ \A i \in 1..Len(f.description) : Char(f.description, i) = " "
    \/ /\ f.category \in {"Mailing Room", "Client Communication"}
       /\ f.subcategory = <<>>

\* A click of Add Issue that persisted a row.
Added == ClickAdd /\ pc'[User] = "rerun"

-----------------------------------------------------------------------------
(* C1: a valid add that runs alone leaves exactly one row more, and the new
   row's id is the largest stored id plus one (1 on an empty store). *)
C1_AddAssignsNextId ==
    [][ClickAdd /\ ~Invalid(form'[User]) =>
          /\ pc'[User] = "rerun"
          /\ Len(StoredIds(sheet')) = Len(StoredIds(sheet)) + 1
          /\ StoredIds(sheet')[Len(StoredIds(sheet'))]
                 = MaxIdOrZero(StoredIds(sheet)) + 1
          /\ session'[User].last_issue_id = MaxIdOrZero(StoredIds(sheet)) + 1
       ]_vars

\* An add has run on the store whose ids were 1, 2, 5 and assigned 6.
C1_Witness ==
    /\ pc[User] = "rerun"
    /\ StoredIds(sheet) = <<1, 2, 5, 6>>
    /\ session[User].last_issue_id = 6

-----------------------------------------------------------------------------
\* The canonical table a load of the worksheet returns.
Loaded(grid) == load_issues(grid).df

\* Every row of the frame has a cell per column, and a column the stored
\* header lacks reads as empty text in every row.
Backfilled(grid, frame) ==
    \A i \in 1..Len(frame.rows) :
        /\ Len(frame.rows[i]) = Len(frame.columns)
        /\ \A j \in 1..Len(frame.columns) :
               (~\E h \in 1..Len(grid[1]) : grid[1][h] = frame.columns[j])
                   => frame.rows[i][j] = Str("")

(* C4 (as amended): on an existing worksheet every load returns a table
   with exactly the eleven canonical columns in canonical order, one row
   per stored data row, missing columns backfilled with empty text and
   other columns dropped; a load of an empty worksheet writes the canonical
   header and returns no rows.  On a missing spreadsheet the run raises
   and nothing is written. *)
C4_LoadReturnsCanonicalTable ==
    [][ /\ found =>
            /\ Loaded(sheet).columns = EXPECTED_COLUMNS
            /\ Len(Loaded(sheet).rows) = Len(DataRows(sheet))
            /\ Backfilled(sheet, Loaded(sheet))
            /\ Len(sheet) = 0 =>
                   /\ sheet'[1] = EXPECTED_COLUMNS
                   /\ ~Added => sheet' = <<EXPECTED_COLUMNS>>
                   /\ Loaded(sheet).rows = <<>>
            /\ Len(sheet') >= 1
        /\ ~found => sheet' = sheet /\ screen'[User].msg = "SpreadsheetNotFound"
      ]_vars

\* A load has run on the empty worksheet and on nothing else since.
C4_Witness ==
    /\ found
    /\ sheet = <<EXPECTED_COLUMNS>>
    /\ screen[User].page = "view"
    /\ screen[User].table = DataFrame(EXPECTED_COLUMNS, <<>>)

(* C4 as claimed: once a run has loaded, the store (missing or empty
   before) holds the canonical header. *)
C4_LoadInitialisesStore ==
    screen[User] # BlankScreen =>
        /\ Len(sheet) >= 1
        /\ Loaded(sheet).columns = EXPECTED_COLUMNS

-----------------------------------------------------------------------------
(* C5: an invalid add request reports an error, assigns no id, queues no
   rerun and leaves the stored rows as they were (the worksheet is touched
   by the page load alone); and every row an add persists has a selected
   category, a description that is not blank, and a subcategory when its
   category is Mailing Room or Client Communication. *)
C5_InvalidRejected ==
    [][ClickAdd =>
          /\ Invalid(form'[User]) =>
                 /\ screen'[User].page = "add"
                 /\ screen'[User].msg # ""
                 /\ pc'[User] = "idle"
                 /\ session'[User].last_issue_id = session[User].last_issue_id
                 /\ ~session'[User].show_success
                 /\ sheet' = ensure_header(sheet)
                 /\ DataRows(sheet') = DataRows(sheet)
          /\ pc'[User] = "rerun" =>
                 LET row == StoredTable(sheet')[Len(sheet') - 1]
                 IN  /\ row[4] # SELECT_PLACEHOLDER
                     /\ Strip(row[8]) # ""
                     /\ row[4] \in {"Mailing Room", "Client Communication"}
                            => row[5] # ""
       ]_vars

\* A click with a blank description has been rejected.
C5_Witness ==
    /\ form[User] = FNoDescription
    /\ screen[User].msg = "Please provide an Issue Description."
    /\ pc[User] = "idle"

-----------------------------------------------------------------------------
(* C6: a successful add leaves every row stored before it in the store,
   all eleven fields unchanged and in the same order, the new row after
   them; and no other operation changes the stored rows. *)
C6_StoredRowsUntouched ==
    [][ IF Added
        THEN /\ IsPrefix(StoredTable(sheet), StoredTable(sheet'))
             /\ Len(StoredTable(sheet')) = Len(StoredTable(sheet)) + 1
        ELSE StoredTable(sheet') = StoredTable(sheet)
      ]_vars

\* Two adds of the form whose description is "007": the second add rewrote
\* the first row's description as "7".
C6_Witness ==
    /\ Len(DataRows(sheet)) = 2
    /\ StoredField(sheet, 1, "Description") = "7"
    /\ StoredField(sheet, 2, "Description") = "007"

-----------------------------------------------------------------------------
\* L is one of the ", "-separated elements of the cell.
HasElement(cell, L) ==
    \/ cell = L
    \/ Len(cell) > Len(L) + 1 /\ SubSeq(cell, 1, Len(L) + 2) = L \o ", "
    \/ Len(cell) > Len(L) + 1
           /\ SubSeq(cell, Len(cell) - Len(L) - 1, Len(cell)) = ", " \o L
    \/ \E i \in 1..(Len(cell) - Len(L) - 3) :
           SubSeq(cell, i, i + Len(L) + 3) = ", " \o L \o ", "

\* Number of ", "-separated elements of a cell: separators plus one.
ElementCount(cell) ==
    IF cell = "" THEN 0
    ELSE 1 + Cardinality({i \in 1..(Len(cell) - 1) : SubSeq(cell, i, i + 1) = ", "})

RECURSIVE SumOver(_, _)
SumOver(f, S) ==
    IF S = {} THEN 0
    ELSE LET x == CHOOSE y \in S : TRUE IN f[x] + SumOver(f, S \ {x})

Labels == Range(lab_sections) \cup Range(species_list)

\* The counts are those of the claim for one multi-valued column.
TalliesColumn(counts, frame, col) ==
    LET cells == Column(frame, col)
    IN  /\ \A L \in Labels \cup DOMAIN counts :
               LET n == Cardinality({i \in 1..Len(cells) : HasElement(cells[i], L)})
               IN  IF n = 0 THEN L \notin DOMAIN counts
                   ELSE L \in DOMAIN counts /\ counts[L] = n
        /\ SumOver(counts, DOMAIN counts)
               = SumOver([i \in 1..Len(cells) |-> ElementCount(cells[i])],
                         1..Len(cells))

(* C7: the lab-section and species tallies count, for every label, the
   rows whose cell has the label among its ", "-separated elements; labels
   of no row are absent; the counts add up to the number of elements of all
   non-empty cells. *)
C7_MultivalueCounts ==
    screen[User].page = "analytics" =>
        /\ TalliesColumn(screen[User].lab_counts, screen[User].table, "Lab Section")
        /\ TalliesColumn(screen[User].species_counts, screen[User].table, "Species")

\* Cells "Avian, Virology" and "Avian" have been tallied.
C7_Witness ==
    /\ screen[User].page = "analytics"
    /\ DropEmpty(Column(screen[User].table, "Lab Section"))
           = <<"Avian, Virology", "Avian">>
    /\ screen[User].lab_counts = [L \in {"Avian", "Virology"} |->
                                     IF L = "Avian" THEN 2 ELSE 1]

-----------------------------------------------------------------------------
(* C8: total is the number of rows, resolved the number of rows with a
   non-empty resolution date, open = total - resolved, and on a non-empty
   table rate = resolved / total x 100; on an empty table no rate is
   computed. *)
C8_ResolutionStats ==
    screen[User].page = "analytics" =>
        LET m == screen[User].metrics
            dates == Column(screen[User].table, "Resolution Date")
            n == Len(screen[User].table.rows)
        IN  IF n = 0 THEN m = NoMetrics /\ Len(DataRows(sheet)) = 0
            ELSE /\ m.total = n
                 /\ m.total = Len(DataRows(sheet))
                 /\ m.resolved = Cardinality({i \in 1..n : dates[i] # ""})
                 /\ m.open = m.total - m.resolved
                 /\ m.resolved + m.open = m.total
                 /\ 0 <= m.resolved /\ m.resolved <= m.total
                 /\ m.rate[2] = m.total
                 /\ m.rate[1] = m.resolved * 100

\* 4 rows of which 1 is resolved: total 4, resolved 1, open 3, rate 25.
C8_Witness ==
    /\ screen[User].page = "analytics"
    /\ screen[User].metrics.total = 4
    /\ screen[User].metrics.resolved = 1
    /\ screen[User].metrics.open = 3
    /\ screen[User].metrics.rate[1] = 25 * screen[User].metrics.rate[2]

-----------------------------------------------------------------------------
\* The keyword occurs in the text, letter case ignored.
ContainsIgnoreCase(text, keyword) ==
    \E i \in 1..(Len(text) - Len(keyword) + 1) :
        \A j \in 1..Len(keyword) :
            LowerChar(Char(text, i + j - 1)) = LowerChar(Char(keyword, j))

(* C9: search keeps exactly the rows in which the string form of some
   column contains the keyword as a substring, case ignored, in their
   order; the empty keyword keeps every row; the store is not modified. *)
C9_SearchIsSubstringFilter ==
    screen[User].page = "view" =>
        LET all == Loaded(sheet).rows
            keyword == screen[User].msg
            kept == {i \in 1..Len(all) :
                        \E j \in 1..Len(all[i]) :
                            ContainsIgnoreCase(astype_str(all[i][j]), keyword)}
            shown == screen[User].table.rows
        IN  /\ Len(shown) = Cardinality(kept)
            /\ \A k \in 1..Len(shown) :
                   \E i \in kept :
                       /\ shown[k] = all[i]
                       /\ Cardinality({h \in kept : h < i}) = k - 1
            /\ keyword = "" => shown = all

\* A search for "." shows rows although no field of the table contains
\* a full stop.
C9_Witness ==
    /\ screen[User].page = "view"
    /\ screen[User].msg = "."
    /\ Len(screen[User].table.rows) = 2
    /\ \A i \in 1..2 : \A j \in 1..Len(EXPECTED_COLUMNS) :
           ~ContainsIgnoreCase(astype_str(screen[User].table.rows[i][j]), ".")

-----------------------------------------------------------------------------
Distinct(ids) == \A i, j \in 1..Len(ids) : i # j => ids[i] # ids[j]

(* C2: when appends do not overlap, whatever page-load copies the sessions
   hold, the ids of a store whose ids are distinct stay distinct, the id
   of a stored row never changes, and each new id is greater than every
   id stored before it. *)
C2_IdsUniqueAndStable ==
    [][Distinct(StoredIds(sheet)) =>
          /\ Distinct(StoredIds(sheet'))
          /\ IsPrefix(StoredIds(sheet), StoredIds(sheet'))
          /\ \A i \in (Len(StoredIds(sheet)) + 1)..Len(StoredIds(sheet')) :
                 \A j \in 1..(i - 1) : StoredIds(sheet')[j] < StoredIds(sheet')[i]
       ]_vars

\* s2 appended 6, then s1 appended 7, and s2 again holds a page-load copy
\* that is older than the store.
C2_Witness ==
    /\ StoredIds(sheet) = <<1, 2, 5, 6, 7>>
    /\ session["s2"].last_issue_id = 6
    /\ session["s1"].last_issue_id = 7
    /\ pc["s2"] = "add_click"
    /\ Len(df["s2"].rows) = 4

-----------------------------------------------------------------------------
\* The rows of a frame as text.
FrameText(frame) ==
    [i \in 1..Len(frame.rows) |->
        [j \in 1..Len(frame.rows[i]) |-> astype_str(frame.rows[i][j])]]

NewRow(s) == df[s].rows[Len(df[s].rows)]

\* a and b both reloaded the same worksheet contents before either began
\* to persist, both have persisted, and nothing else was written since.
RacedAndSaved(a, b) ==
    /\ a # b
    /\ pc[a] = "add.saved"
    /\ pc[b] = "add.saved"
    /\ loadVer[a] = loadVer[b]
    /\ ver = loadVer[a] + 4

(* C3: two adds that both reload before either persists compute the same
   new id (the largest stored id plus one), and after both have persisted
   the store holds the table of the later update alone: one row more than
   was loaded, not two, the earlier writer's row gone. *)
C3_LastWriterWins ==
    \A a, b \in Sessions :
        RacedAndSaved(a, b) =>
            LET n == Len(df[a].rows)
                before == [i \in 1..(n - 1) |-> df[a].rows[i][1].v]
            IN  /\ Len(df[b].rows) = n
                /\ NewRow(a)[1] = NewRow(b)[1]
                /\ NewRow(a)[1] = Num(MaxIdOrZero(before) + 1)
                /\ lastUpdate \in {a, b}
                /\ StoredTable(sheet) = FrameText(df[lastUpdate])
                /\ Len(DataRows(sheet)) = n
                /\ \A w \in {a, b} \ {lastUpdate} :
                       NewRow(w) # NewRow(lastUpdate) =>
                           \A i \in 1..n :
                               StoredTable(sheet)[i] # FrameText(df[w])[n]

\* Both sessions raced on the store with ids 1, 2, 5 with different forms:
\* id 6 was assigned twice and the store holds four rows.
C3_Witness ==
    /\ RacedAndSaved("s1", "s2")
    /\ form["s1"] # form["s2"]
    /\ NewRow("s1")[1] = Num(6)
    /\ NewRow("s2")[1] = Num(6)
    /\ StoredIds(sheet) = <<1, 2, 5, 6>>

-----------------------------------------------------------------------------
\* A reader's row count does not fall from one View to its next.
ReaderCountMonotone ==
    (screen[Reader].page = "view" /\ screen'[Reader].page = "view")
        => screen'[Reader].total >= screen[Reader].total

\* A load's row_values(1) call finds no header only in a worksheet that
\* nothing has been written to yet.
HeaderSeenOnceWritten ==
    \A s \in Sessions :
        (\E at \in LoadPoints : pc[s] = at \o ".rv" /\ pc'[s] = at \o ".ins")
            => ver = 0

\* A save that stops after clear() leaves the rows the writer had loaded.
FailedSaveKeepsRows ==
    UpdateFails(Writer) => Len(DataRows(sheet')) >= Len(df[Writer].rows) - 1

(* C10: with one writer and readers, the row count a reader sees never
   falls from one View to its next, no load that overlaps save_issues finds
   the worksheet empty or without its header, and a save that stops between
   clear() and update() leaves the previously stored rows in place. *)
C10_PersistObservedAtomically ==
    [][ReaderCountMonotone /\ HeaderSeenOnceWritten /\ FailedSaveKeepsRows]_vars

\* The reader's View, loaded after the writer's clear(), shows no rows
\* while the writer is between clear() and update() with four rows to write.
C10_Witness ==
    /\ pc[Writer] = "add.update"
    /\ Len(df[Writer].rows) = 4
    /\ screen[Reader].page = "view"
    /\ screen[Reader].total = 0
    /\ loadVer[Reader] > 0

====
